---- MODULE Spec2Model ----
(***************************************************************************)
(* Contributor-insights rule bodies of aws-cloudwatch:                     *)
(*   lib/insight-rule-body.ts          CloudWatchLogsV1RuleBody            *)
(*   lib/private/insight-rule-util.ts  keysToPascalCase                    *)
(*                                                                         *)
(* JavaScript values are tagged records, so that typeof, truthiness,       *)
(* Array.isArray and the difference between an absent property and an      *)
(* undefined one are computed the way the runtime computes them:           *)
(*   [t |-> "undefined"]                                                   *)
(*   [t |-> "string", v |-> "..."]     [t |-> "number", v |-> 1]           *)
(*   [t |-> "array",  v |-> <<...>>]                                       *)
(*   [t |-> "object", addr |-> "...", v |-> [key |-> value]]               *)
(* `addr` is the identity of an object (what == and != compare).  A        *)
(* property key is the pair <<key.charAt(0), key.slice(1)>>.               *)
(***************************************************************************)
EXTENDS Integers, Sequences, FiniteSets, TLC

\* ------------------------------------------------------------------ bounds
\* Longest contribution.keys list a caller supplies.
MaxKeysLen == 5
\* Longest contribution.filters list a caller supplies.
MaxFiltersLen == 5

\* --------------------------------------------------------------- JS values
Undefined == [t |-> "undefined"]
Null == [t |-> "null"]
Str(s) == [t |-> "string", v |-> s]
Num(n) == [t |-> "number", v |-> n]
Arr(s) == [t |-> "array", v |-> s]
Obj(a, f) == [t |-> "object", addr |-> a, v |-> f]

\* The empty property map.
NoProps == [k \in {} |-> Undefined]

\* ToBoolean, as `||`, `&&`, `?:` and `if` apply it.
Truthy(x) ==
  CASE x.t = "undefined" -> FALSE
    [] x.t = "null" -> FALSE
    [] x.t = "string" -> x.v # ""
    [] x.t = "number" -> x.v # 0
    [] OTHER -> TRUE

\* a || b
Or(a, b) == IF Truthy(a) THEN a ELSE b

\* o.k : undefined when o has no such property
Get(o, k) == IF k \in DOMAIN o.v THEN o.v[k] ELSE Undefined

\* o.k = val, on the object itself (its identity is kept)
Set(o, k, val) ==
  [o EXCEPT !.v = [x \in (DOMAIN o.v) \cup {k} |-> IF x = k THEN val ELSE o.v[x]]]

\* delete o.k
Delete(o, k) == [o EXCEPT !.v = [x \in (DOMAIN o.v) \ {k} |-> o.v[x]]]

\* a != b where a is an object or undefined and b is an object: two objects
\* are equal only when they are the same object.
NotSameObject(a, b) ==
  IF a.t = "object" /\ b.t = "object" THEN a.addr # b.addr ELSE TRUE

\* ---------------------------------------------------------- property keys
Key(first, rest) == <<first, rest>>
kSchema == Key("s", "chema")
kName == Key("n", "ame")
kVersion == Key("v", "ersion")
kLogGroupNames == Key("l", "ogGroupNames")
kLogFormat == Key("l", "ogFormat")
kFields == Key("f", "ields")
kContribution == Key("c", "ontribution")
kKeys == Key("k", "eys")
kValueof == Key("v", "alueof")
kFilters == Key("f", "ilters")
kAggregateOn == Key("a", "ggregateOn")

LowerCase == <<"a", "b", "c", "d", "e", "f", "g", "h", "i", "j", "k", "l", "m",
               "n", "o", "p", "q", "r", "s", "t", "u", "v", "w", "x", "y", "z">>
UpperCase == <<"A", "B", "C", "D", "E", "F", "G", "H", "I", "J", "K", "L", "M",
               "N", "O", "P", "Q", "R", "S", "T", "U", "V", "W", "X", "Y", "Z">>

\* String.prototype.toUpperCase on one character
toUpperCase(c) ==
  IF \E i \in DOMAIN LowerCase : LowerCase[i] = c
  THEN UpperCase[CHOOSE i \in DOMAIN LowerCase : LowerCase[i] = c]
  ELSE c

\* Wire (PascalCase) keys
KSchema == Key("S", "chema")
KName == Key("N", "ame")
KVersion == Key("V", "ersion")
KLogGroupNames == Key("L", "ogGroupNames")
KLogFormat == Key("L", "ogFormat")
KFields == Key("F", "ields")
KContribution == Key("C", "ontribution")
KKeys == Key("K", "eys")
KValueof == Key("V", "alueof")
KValueOf == Key("V", "alueOf")
KFilters == Key("F", "ilters")
KAggregateOn == Key("A", "ggregateOn")
KMatch == Key("M", "atch")
KIn == Key("I", "n")
KGreaterThan == Key("G", "reaterThan")

\* ------------------------------------------------ lib/insight-rule-body.ts
\* enum InsightRuleLogFormats
InsightRuleLogFormats == [JSON |-> Str("JSON"), CLF |-> Str("CLF")]
\* enum InsightRuleAggregates
InsightRuleAggregates == [COUNT |-> Str("Count"), SUM |-> Str("Sum")]

\* class InsightRuleBody
MAX_CONTRIBUTION_KEYS == 4
MIN_CONTRIBUTION_KEYS == 0
MAX_CONTRIBUTION_FILTERS == 4

\* CloudWatchLogsV1RuleBody.SCHEMA: one object, created once with the class.
\* The mutant carries the name an earlier revision gave the schema.
SCHEMA_CloudWatchLogs ==
  Obj("CloudWatchLogsV1RuleBody.SCHEMA",
      (kName :> Str("CloudWatchLogs")) @@ (kVersion :> Num(1)))
\* The properties SCHEMA is created with
SCHEMA_literal == (kName :> Str("CloudWatchLogRule")) @@ (kVersion :> Num(1))

\* The properties the SCHEMA object has now: the reference is readonly, the
\* object is not frozen, and a caller that holds it can assign to them.
VARIABLE SCHEMA_properties
SCHEMA == Obj("CloudWatchLogsV1RuleBody.SCHEMA", SCHEMA_properties)

\* An Error and its message: the template's text with {} where a number is
\* interpolated, and the interpolated numbers in order.  An object
\* interpolated into a template is the text [object Object].
Error(text, args) == [t |-> "Error", text |-> text, args |-> args]
NoError == [t |-> "none"]

\* setRuleBodyDefaults, the value assigned to ruleBody.logFormat.  The mutant
\* chooses CLF only for a mapping that has an entry.
defaultLogFormat_nonEmptyFields(ruleBody) ==
  Or(Get(ruleBody, kLogFormat),
     IF Truthy(Get(ruleBody, kFields)) /\ DOMAIN Get(ruleBody, kFields).v # {}
     THEN InsightRuleLogFormats.CLF
     ELSE InsightRuleLogFormats.JSON)
\* A second mutant infers the format whatever the caller chose.
defaultLogFormat_alwaysInfer(ruleBody) ==
  IF Truthy(Get(ruleBody, kFields))
  THEN InsightRuleLogFormats.CLF
  ELSE InsightRuleLogFormats.JSON
defaultLogFormat(ruleBody) ==
  Or(Get(ruleBody, kLogFormat),
     IF Truthy(Get(ruleBody, kFields))
     THEN InsightRuleLogFormats.CLF
     ELSE InsightRuleLogFormats.JSON)

\* setRuleBodyDefaults, the value assigned to ruleBody.schema.  The mutant
\* assigns SCHEMA whatever the caller supplied.
defaultSchema_always(ruleBody) == SCHEMA
defaultSchema(ruleBody) == Or(Get(ruleBody, kSchema), SCHEMA)

\* setRuleBodyDefaults, the value assigned to ruleBody.aggregateOn.  The
\* mutant infers it whatever the caller chose.
defaultAggregateOn_alwaysInfer(ruleBody) ==
  IF Truthy(Get(Get(ruleBody, kContribution), kValueof))
  THEN InsightRuleAggregates.SUM
  ELSE InsightRuleAggregates.COUNT
defaultAggregateOn(ruleBody) ==
  Or(Get(ruleBody, kAggregateOn),
     IF Truthy(Get(Get(ruleBody, kContribution), kValueof))
     THEN InsightRuleAggregates.SUM
     ELSE InsightRuleAggregates.COUNT)

\* setRuleBodyDefaults, the value assigned to ruleBody.contribution.filters.
\* The mutant leaves filters as given.
defaultFilters_none(contribution) == Get(contribution, kFilters)
defaultFilters(contribution) == Or(Get(contribution, kFilters), Arr(<<>>))

\* CloudWatchLogsV1RuleBody.setRuleBodyDefaults: assigns to the object it is
\* given, one property after the other, and returns that same object.
setRuleBodyDefaults(ruleBody) ==
  LET r1 == Set(ruleBody, kLogFormat, defaultLogFormat(ruleBody))
      r2 == Set(r1, kSchema, defaultSchema(r1))
      r3 == Set(r2, kAggregateOn, defaultAggregateOn(r2))
      c  == Get(r3, kContribution)
  IN  Set(r3, kContribution, Set(c, kFilters, defaultFilters(c)))

\* validateRuleBody, its three conditions.  The mutants: the schema compared
\* by name alone; the two counts compared with >= .
schemaMismatch_nameOnly(ruleBody) ==
  Get(Get(ruleBody, kSchema), kName) # Get(SCHEMA, kName)
schemaMismatch(ruleBody) == NotSameObject(Get(ruleBody, kSchema), SCHEMA)

keysOutOfRange_offByOne(keys) ==
  Len(keys.v) >= MAX_CONTRIBUTION_KEYS \/ Len(keys.v) < MIN_CONTRIBUTION_KEYS
keysOutOfRange(keys) ==
  Len(keys.v) > MAX_CONTRIBUTION_KEYS \/ Len(keys.v) < MIN_CONTRIBUTION_KEYS

tooManyFilters_offByOne(filters) ==
  Truthy(filters) /\ Len(filters.v) >= MAX_CONTRIBUTION_FILTERS
tooManyFilters(filters) ==
  Truthy(filters) /\ Len(filters.v) > MAX_CONTRIBUTION_FILTERS

\* validateRuleBody, the three errors it throws
SchemaError ==
  Error("A version 1 CloudWatch Log rule body can only have a schema [object Object], but [object Object] was given",
        <<>>)
KeysError(ruleBody) ==
  Error("A version 1 CloudWatch Log Rule body can have between {} to \n           {} keys, but {} was given.",
        <<MIN_CONTRIBUTION_KEYS, MIN_CONTRIBUTION_KEYS,
          Len(Get(Get(ruleBody, kContribution), kKeys).v)>>)
FiltersError(ruleBody) ==
  Error("A version 1 CloudWatch Log Rule body can up to {} , but {} was given.",
        <<MAX_CONTRIBUTION_FILTERS, Len(Get(Get(ruleBody, kContribution), kKeys).v)>>)

\* CloudWatchLogsV1RuleBody.validateRuleBody: the Error it throws, NoError
\* when it returns.  The mutant counts the keys before it looks at the schema.
validateRuleBody_keysFirst(ruleBody) ==
  LET contribution == Get(ruleBody, kContribution)
  IN  IF keysOutOfRange(Get(contribution, kKeys)) THEN KeysError(ruleBody)
      ELSE IF schemaMismatch(ruleBody) THEN SchemaError
      ELSE IF tooManyFilters(Get(contribution, kFilters)) THEN FiltersError(ruleBody)
      ELSE NoError
validateRuleBody(ruleBody) ==
  LET contribution == Get(ruleBody, kContribution)
  IN  IF schemaMismatch(ruleBody) THEN SchemaError
      ELSE IF keysOutOfRange(Get(contribution, kKeys)) THEN KeysError(ruleBody)
      ELSE IF tooManyFilters(Get(contribution, kFilters)) THEN FiltersError(ruleBody)
      ELSE NoError

\* lib/private/object.ts dropUndefined: a new object with the properties of x
\* whose value is not undefined (nested objects are the same objects).
dropUndefined(x) ==
  Obj("dropUndefined",
      [k \in {k \in DOMAIN x.v : x.v[k].t # "undefined"} |-> x.v[k]])

\* lib/private/insight-rule-util.ts keysToPascalCase.  Two keys of one object
\* that capitalize to the same key do not occur in the descriptions modelled.
newKey(key) == Key(toUpperCase(key[1]), key[2])
RECURSIVE keysToPascalCase(_)
keysToPascalCase(obj) ==
  IF obj.t \notin {"object", "array"}
  THEN obj
  ELSE IF obj.t = "array"
  THEN Arr([i \in DOMAIN obj.v |-> keysToPascalCase(obj.v[i])])
  ELSE Obj("keysToPascalCase",
           [nk \in {newKey(key) : key \in DOMAIN obj.v} |->
              keysToPascalCase(obj.v[CHOOSE key \in DOMAIN obj.v : newKey(key) = nk])])

\* ruleBodyKeysToPascalCase
ruleBodyKeysToPascalCase(ruleBody) ==
  LET pascalRuleBody == keysToPascalCase(ruleBody)
      Contribution == Get(pascalRuleBody, KContribution)
  IN  IF Truthy(Get(Contribution, KValueof))
      THEN Set(pascalRuleBody, KContribution,
               Delete(Set(Contribution, KValueOf, Get(Contribution, KValueof)), KValueof))
      ELSE pascalRuleBody

\* A string that spells a JSON document is kept as that document; every
\* other string (Str) is kept by its characters, and none of those spells a
\* JSON document.  So the text "abc" with its quotes, JSONtext(Str("abc")), and
\* the string abc, Str("abc"), are two strings.
JSONtext(doc) == [t |-> "string", json |-> doc]
IsJSON(text) == text.t = "string" /\ "json" \in DOMAIN text

\* The document JSON.stringify writes.  A property whose value is undefined
\* is left out, an undefined array element is written null, and an object
\* has no identity in the text.  The mutant writes null for an undefined
\* property.
RECURSIVE JSONdoc_nullProperties(_)
JSONdoc_nullProperties(x) ==
  CASE x.t = "object" ->
         [t |-> "object",
          v |-> [k \in DOMAIN x.v |->
                   IF x.v[k].t = "undefined" THEN Null ELSE JSONdoc_nullProperties(x.v[k])]]
    [] x.t = "array" ->
         Arr([i \in DOMAIN x.v |->
                IF x.v[i].t = "undefined" THEN Null ELSE JSONdoc_nullProperties(x.v[i])])
    [] OTHER -> x
RECURSIVE JSONdoc(_)
JSONdoc(x) ==
  CASE x.t = "object" ->
         [t |-> "object",
          v |-> [k \in {k \in DOMAIN x.v : x.v[k].t # "undefined"} |-> JSONdoc(x.v[k])]]
    [] x.t = "array" ->
         Arr([i \in DOMAIN x.v |->
                IF x.v[i].t = "undefined" THEN Null ELSE JSONdoc(x.v[i])])
    [] OTHER -> x

\* JSON.stringify
JSONstringify(x) == JSONtext(JSONdoc(x))

\* The value of a JSON document: every object of the text is a new object.
RECURSIVE JSONvalue(_)
JSONvalue(doc) ==
  CASE doc.t = "object" -> Obj("JSON.parse", [k \in DOMAIN doc.v |-> JSONvalue(doc.v[k])])
    [] doc.t = "array" -> Arr([i \in DOMAIN doc.v |-> JSONvalue(doc.v[i])])
    [] OTHER -> doc

\* JSON.parse of a text that spells a JSON document
JSONparse(text) == JSONvalue(text.json)

\* IRuleBody.renderRuleBody of the object fromRuleBody returns
renderRuleBody(ruleBody) ==
  JSONstringify(ruleBodyKeysToPascalCase(dropUndefined(ruleBody)))

\* ------------------------------------------------------------- the caller
\* What a caller writes for an optional property it leaves out.
Absent == [t |-> "absent"]
With(o, k, val) == IF val.t = "absent" THEN o ELSE Set(o, k, val)

Reverse(s) == [i \in 1..Len(s) |-> s[Len(s) + 1 - i]]

\* contribution.keys: n log fields
KeyList(n) == [i \in 1..n |-> Str("$.key" \o ToString(i))]
KeysChoices ==
  [i \in 1..(MaxKeysLen + 1) |-> Arr(KeyList(i - 1))] \o <<Arr(Reverse(KeyList(2)))>>

\* contribution.filters: filters as CloudWatchLogsV1Filter.fromFilter makes them
TextFilter ==
  Obj("fromFilter", (KMatch :> Str("$.httpMethod")) @@ (KIn :> Arr(<<Str("PUT")>>)))
NumericalFilter ==
  Obj("fromFilter", (KMatch :> Str("$.BytesRecieved")) @@ (KGreaterThan :> Num(0)))
FilterList(n) == [i \in 1..n |-> IF i % 2 = 1 THEN TextFilter ELSE NumericalFilter]
FiltersChoices ==
  <<Absent>> \o [i \in 1..(MaxFiltersLen + 1) |-> Arr(FilterList(i - 1))]
    \o <<Arr(Reverse(FilterList(2)))>>

LogFormatChoices == <<Absent, InsightRuleLogFormats.JSON, InsightRuleLogFormats.CLF>>
AggregateOnChoices == <<Absent, InsightRuleAggregates.COUNT, InsightRuleAggregates.SUM>>
FieldsChoices ==
  <<Absent, Undefined, Obj("literal", NoProps),
    Obj("literal", (Key("1", "") :> Str("requestId"))),
    Obj("literal", (Key("i", "p") :> Str("IpAddress")))>>
SchemaChoices ==
  <<Absent,
    Obj("literal", (kName :> Str("CloudWatchLogRule")) @@ (kVersion :> Num(1))),
    Obj("literal", (kName :> Str("A very bad schema")) @@ (kVersion :> Num(1))),
    Obj("literal", (kName :> Str("CloudWatchLogRule")) @@ (kVersion :> Num(2)))>>
ValueofChoices == <<Absent, Undefined, Str(""), Str("$.BytesRecieved")>>
LogGroupNames == Arr(<<Str("/aws/lambda/*"), Str("loggy")>>)

\* The object literal a caller passes to fromRuleBody.
Description(logFormat, fields, schema, aggregateOn, valueof, keys, filters) ==
  LET contribution ==
        With(With(Obj("literal", (kKeys :> keys)), kValueof, valueof),
             kFilters, filters)
      required ==
        Obj("literal", (kLogGroupNames :> LogGroupNames) @@ (kContribution :> contribution))
  IN  With(With(With(With(required, kLogFormat, logFormat), kFields, fields),
                kSchema, schema), kAggregateOn, aggregateOn)

\* ------------------------------------------------------------------- state
VARIABLES
  ruleBody,   \* the description object the caller holds and fromRuleBody is given
  supplied,   \* that object as it was when fromRuleBody was called with it
  pc,         \* "described", "thrown" (fromRuleBody threw), "built" (it returned
              \* an IRuleBody), "rendered" (renderRuleBody returned)
  thrown,     \* the Error fromRuleBody threw, NoError otherwise
  rendered,   \* the text renderRuleBody returned, Undefined before
  file,       \* the text of the file at filepath, Undefined when there is none
  returned,   \* what the last call of fromFile, of CustomRuleBody or of the
              \* filter classes returned, Undefined before and when it threw
  builder,    \* the InsightsRuleBodyFilterBuilder, Undefined before construction
  call,       \* the last call made on the file, custom or filter interface
  selected    \* an operation method of the builder has returned (history)
vars == <<ruleBody, supplied, pc, thrown, rendered, file, returned, builder, call, selected,
          SCHEMA_properties>>
ruleVars == <<ruleBody, supplied, pc, rendered, file, SCHEMA_properties>>
otherVars == <<file, returned, builder, call, selected, SCHEMA_properties>>

\* No call made yet
NoCall == [fn |-> Str("none"), on |-> "none", arg |-> Undefined]

\* The description a caller writes
InitDescription ==
  \E lf \in DOMAIN LogFormatChoices, fi \in DOMAIN FieldsChoices,
     sc \in DOMAIN SchemaChoices, ag \in DOMAIN AggregateOnChoices,
     vo \in DOMAIN ValueofChoices, ks \in DOMAIN KeysChoices,
     fl \in DOMAIN FiltersChoices :
    ruleBody = Description(LogFormatChoices[lf], FieldsChoices[fi], SchemaChoices[sc],
                           AggregateOnChoices[ag], ValueofChoices[vo],
                           KeysChoices[ks], FiltersChoices[fl])

\* Nothing called, no file, no builder
InitOthers ==
  /\ file = Undefined
  /\ returned = Undefined
  /\ builder = Undefined
  /\ call = NoCall
  /\ selected = FALSE
  /\ SCHEMA_properties = SCHEMA_literal

Init ==
  /\ InitDescription
  /\ supplied = ruleBody
  /\ pc = "described"
  /\ thrown = NoError
  /\ rendered = Undefined
  /\ InitOthers

\* CloudWatchLogsV1RuleBody.fromRuleBody(ruleBody): the defaults are assigned
\* to the caller's object, then it is validated; the IRuleBody returned keeps
\* a reference to that object.
fromRuleBody ==
  /\ pc = "described"
  /\ ruleBody' = setRuleBodyDefaults(ruleBody)
  /\ thrown' = validateRuleBody(ruleBody')
  /\ pc' = IF thrown' = NoError THEN "built" ELSE "thrown"
  /\ UNCHANGED <<supplied, rendered>>
  /\ UNCHANGED otherVars

\* IRuleBody.renderRuleBody()
RenderRuleBody ==
  /\ pc = "built"
  /\ rendered' = renderRuleBody(ruleBody)
  /\ pc' = "rendered"
  /\ UNCHANGED <<ruleBody, supplied, thrown>>
  /\ UNCHANGED otherVars

\* The caller passes the object it still holds to fromRuleBody once more.
PassAgain ==
  /\ pc \in {"thrown", "rendered"}
  /\ supplied' = ruleBody
  /\ pc' = "described"
  /\ thrown' = NoError
  /\ rendered' = Undefined
  /\ UNCHANGED ruleBody
  /\ UNCHANGED otherVars

Next == fromRuleBody \/ RenderRuleBody \/ PassAgain

Spec == Init /\ [][Next]_vars

\* ------------------------------------------------------------------ claims
\* A property was supplied: it is there and its value is not undefined.
Has(o, k) == Get(o, k).t # "undefined"
\* JSON.parse of the rendered text, what the tests compare with deepEqual.
parsed == JSONparse(rendered)
\* The parsed output of fromRuleBody(d).renderRuleBody() for an accepted d.
OutputOf(d) == JSONparse(renderRuleBody(setRuleBodyDefaults(d)))
suppliedContribution == Get(supplied, kContribution)

\* C1 as claimed: with no logFormat supplied, the rendered LogFormat is CLF
\* when the fields mapping has at least one entry, and JSON when fields is
\* absent or an empty mapping.
C1_LogFormatFromNonEmptyFields ==
  (pc = "rendered" /\ ~Has(supplied, kLogFormat)) =>
    Get(parsed, KLogFormat) =
      IF Has(supplied, kFields) /\ DOMAIN Get(supplied, kFields).v # {}
      THEN Str("CLF") ELSE Str("JSON")

\* C1 amended: with no logFormat supplied, the rendered LogFormat is CLF when
\* a fields mapping is supplied, empty or not, and JSON when fields is absent.
C1_LogFormatFromSuppliedFields ==
  (pc = "rendered" /\ ~Has(supplied, kLogFormat)) =>
    Get(parsed, KLogFormat) =
      IF Has(supplied, kFields) THEN Str("CLF") ELSE Str("JSON")

\* C1 witness: an empty fields mapping and no logFormat rendered as CLF.
C1_Witness ==
  /\ pc = "rendered"
  /\ ~Has(supplied, kLogFormat)
  /\ Has(supplied, kFields)
  /\ DOMAIN Get(supplied, kFields).v = {}
  /\ Get(parsed, KLogFormat) = Str("CLF")

\* C2: with no aggregateOn supplied, the rendered AggregateOn is Sum when
\* contribution.valueof is present and Count when it is absent.
C2_AggregateOnFromValueof ==
  (pc = "rendered" /\ ~Has(supplied, kAggregateOn)) =>
    Get(parsed, KAggregateOn) =
      IF Has(suppliedContribution, kValueof) THEN Str("Sum") ELSE Str("Count")

\* C3: every rendered output has Contribution.Filters as a list; when the
\* description omits contribution.filters the list is empty and the output
\* deep-equals the output for the same description with filters = [].
C3_FiltersAlwaysAList ==
  pc = "rendered" =>
    LET Filters == Get(Get(parsed, KContribution), KFilters)
    IN  /\ Filters.t = "array"
        /\ ~Has(suppliedContribution, kFilters) =>
             /\ Len(Filters.v) = 0
             /\ parsed = OutputOf(Set(supplied, kContribution,
                                      Set(suppliedContribution, kFilters, Arr(<<>>))))

\* C3 witness: a description without filters rendered with Filters = [].
C3_Witness ==
  /\ pc = "rendered"
  /\ ~Has(suppliedContribution, kFilters)
  /\ Get(Get(parsed, KContribution), KFilters) = Arr(<<>>)

\* The schema the description supplies names the constant pair.
SuppliedSchemaIsV1 ==
  /\ Get(Get(supplied, kSchema), kName) = Str("CloudWatchLogRule")
  /\ Get(Get(supplied, kSchema), kVersion) = Num(1)
\* The description does not trip the schema rule of validateRuleBody: it
\* leaves the schema out, or hands back the SCHEMA object an earlier call
\* assigned to it.  (A new object that spells the same pair is C6's case.)
SchemaPasses ==
  ~Has(supplied, kSchema) \/ ~NotSameObject(Get(supplied, kSchema), SCHEMA)
suppliedKeys == Get(suppliedContribution, kKeys)
suppliedFilters == Get(suppliedContribution, kFilters)
KeysPass == Len(suppliedKeys.v) <= 4
FiltersPass == ~Has(suppliedContribution, kFilters) \/ Len(suppliedFilters.v) <= 4
called == pc # "described"

C5_ForeignSchemaRejected ==
  (called /\ Has(supplied, kSchema) /\ ~SuppliedSchemaIsV1) =>
    (pc = "thrown" /\ thrown # NoError)

\* C5 witness: the right name with version 2, rejected.
C5_Witness ==
  /\ pc = "thrown"
  /\ Has(supplied, kSchema)
  /\ Get(Get(supplied, kSchema), kName) = Str("CloudWatchLogRule")
  /\ Get(Get(supplied, kSchema), kVersion) = Num(2)
  /\ thrown = SchemaError

\* C6: a description whose supplied schema object has name
\* 'CloudWatchLogRule' and version 1, whatever object it is, is accepted and
\* renders what the same description without schema renders.
C6_EqualSchemaAccepted ==
  (called /\ Has(supplied, kSchema) /\ SuppliedSchemaIsV1) =>
    /\ thrown # SchemaError
    /\ pc = "rendered" => parsed = OutputOf(Delete(supplied, kSchema))

\* C7: with a schema and filters that pass, fromRuleBody succeeds when
\* contribution.keys has 0 to 4 entries and raises an error when it has 5 or
\* more.
C7_KeysBound ==
  (called /\ SchemaPasses /\ FiltersPass) =>
    /\ Len(suppliedKeys.v) <= 4 => pc \in {"built", "rendered"} /\ thrown = NoError
    /\ Len(suppliedKeys.v) >= 5 => pc = "thrown" /\ thrown # NoError

\* C7 witness: five keys, nothing else wrong, rejected by the keys rule.
C7_Witness ==
  /\ pc = "thrown" /\ SchemaPasses /\ FiltersPass
  /\ Len(suppliedKeys.v) = 5
  /\ thrown = KeysError(supplied)

\* C8: with a schema and keys that pass, fromRuleBody succeeds when
\* contribution.filters is absent or has 0 to 4 entries and raises an error
\* when it has 5 or more.
C8_FiltersBound ==
  (called /\ SchemaPasses /\ KeysPass) =>
    /\ FiltersPass => pc \in {"built", "rendered"} /\ thrown = NoError
    /\ ~FiltersPass => pc = "thrown" /\ thrown # NoError

\* C8 witness: five filters rejected, by the filters rule.
C8_Witness ==
  /\ pc = "thrown" /\ SchemaPasses /\ KeysPass
  /\ Has(suppliedContribution, kFilters) /\ Len(suppliedFilters.v) = 5
  /\ thrown = FiltersError(supplied)

\* C9: the error raised is the one of the first violated rule, in the order
\* schema, contribution keys, contribution filters.
C9_FirstViolatedRule ==
  called =>
    thrown = IF ~SchemaPasses THEN SchemaError
             ELSE IF ~KeysPass THEN KeysError(supplied)
             ELSE IF ~FiltersPass THEN FiltersError(supplied)
             ELSE NoError

\* C9 witness: all three rules violated, the schema error raised.
C9_Witness ==
  /\ pc = "thrown" /\ ~SchemaPasses /\ ~KeysPass /\ ~FiltersPass
  /\ thrown = SchemaError

\* C10: the parsed output has exactly the capitalized wire keys: Schema
\* (Name, Version), LogGroupNames, LogFormat, Contribution (Keys, Filters, and
\* ValueOf only when valueof was supplied), AggregateOn, and Fields only when
\* fields was supplied; LogGroupNames, Keys and Filters carry the supplied
\* entries in the supplied order.
C10_ExactlyTheWireKeys ==
  pc = "rendered" =>
    LET Contribution == Get(parsed, KContribution)
    IN  /\ DOMAIN parsed.v =
             {KSchema, KLogGroupNames, KLogFormat, KContribution, KAggregateOn}
               \cup (IF Has(supplied, kFields) THEN {KFields} ELSE {})
        /\ DOMAIN Get(parsed, KSchema).v = {KName, KVersion}
        /\ DOMAIN Contribution.v =
             {KKeys, KFilters}
               \cup (IF Has(suppliedContribution, kValueof) THEN {KValueOf} ELSE {})
        /\ Get(parsed, KLogGroupNames) = Get(supplied, kLogGroupNames)
        /\ Get(Contribution, KKeys) = suppliedKeys
        /\ JSONstringify(Get(Contribution, KFilters)) =
             JSONstringify(IF Has(suppliedContribution, kFilters)
                           THEN suppliedFilters ELSE Arr(<<>>))

\* A JSON document holds no null.
RECURSIVE NoNull(_)
NoNull(doc) ==
  CASE doc.t = "null" -> FALSE
    [] doc.t = "object" -> \A k \in DOMAIN doc.v : NoNull(doc.v[k])
    [] doc.t = "array" -> \A i \in DOMAIN doc.v : NoNull(doc.v[i])
    [] OTHER -> TRUE

\* C11: the output has no key for fields or contribution.valueof when the
\* description did not supply them, and holds no null anywhere.
C11_NoKeyNoNullForUnsupplied ==
  pc = "rendered" =>
    /\ ~Has(supplied, kFields) => KFields \notin DOMAIN parsed.v
    /\ ~Has(suppliedContribution, kValueof) =>
         DOMAIN Get(parsed, KContribution).v = {KKeys, KFilters}
    /\ NoNull(rendered.json)

\* C11 witness: fields and valueof both written as undefined by the caller,
\* and the output without Fields and without ValueOf.
C11_Witness ==
  /\ pc = "rendered"
  /\ kFields \in DOMAIN supplied.v /\ ~Has(supplied, kFields)
  /\ kValueof \in DOMAIN suppliedContribution.v /\ ~Has(suppliedContribution, kValueof)
  /\ KFields \notin DOMAIN parsed.v
  /\ KValueOf \notin DOMAIN Get(parsed, KContribution).v

\* ----------------------------------------------------------------- filters
\* The longest operand list a caller passes to a text-set operation
MaxOperandLen == 11

Bool(b) == [t |-> "boolean", v |-> b]

\* The properties of a builder and of IInsightsRuleBodyFilter
kfilterMatch == Key("f", "ilterMatch")
kfilterOperation == Key("f", "ilterOperation")
kfilterOperand == Key("f", "ilterOperand")
kfilterIgnoreCase == Key("f", "ilterIgnoreCase")
kfilterStatistic == Key("f", "ilterStatistic")
KIgnoreCase == Key("I", "gnoreCase")
KStatistic == Key("S", "tatistic")

\* enum InsightsRuleBodyFilterOperations; the operations of the static
\* functions, enum InsightRuleBodyFilterOperations, are the first eight.
InsightsRuleBodyFilterOperations ==
  [IN |-> Str("In"), NOT_IN |-> Str("NotIn"), STARTS_WITH |-> Str("StartsWith"),
   GREATER_THAN |-> Str("GreaterThan"), LESS_THAN |-> Str("LessThan"),
   EQUAL_TO |-> Str("EqualTo"), NOT_EQUAL_TO |-> Str("NotEqualTo"),
   IS_PRESENT |-> Str("IsPresent"), UNDEFINED |-> Str("UNDEFINED")]
InsightsRuleBodyFilterStatistics ==
  [SUM |-> Str("Sum"), COUNT |-> Str("Count"), AVERAGE |-> Str("Average")]

\* The property key a computed key [operation] names
PropertyKey(operation) ==
  [In |-> KIn, NotIn |-> Key("N", "otIn"), StartsWith |-> Key("S", "tartsWith"),
   GreaterThan |-> KGreaterThan, LessThan |-> Key("L", "essThan"),
   EqualTo |-> Key("E", "qualTo"), NotEqualTo |-> Key("N", "otEqualTo"),
   IsPresent |-> Key("I", "sPresent"), UNDEFINED |-> Key("U", "NDEFINED")][operation.v]

MAX_OPERAND_ARR_LEN == 10
MIN_OPERAND_ARR_LEN == 1
OPERAND_UNDEFINED == Arr(<<>>)
MIN_TEXT_OPERANDS == 1
MAX_TEXT_OPERANDS == 10

\* new InsightsRuleBodyFilterBuilder(match); the three private constants of
\* the instance are the definitions above.
InsightsRuleBodyFilterBuilder(match) ==
  Obj("builder",
      (kfilterMatch :> match)
        @@ (kfilterOperation :> InsightsRuleBodyFilterOperations.UNDEFINED)
        @@ (kfilterOperand :> OPERAND_UNDEFINED))

\* InsightsRuleBodyFilterBuilder.checkAndErrorIfBadOperand: the Error it
\* throws, NoError when it returns.  The mutant refuses the longest list.
checkAndErrorIfBadOperand_offByOne(operand) ==
  IF Len(operand.v) >= MAX_OPERAND_ARR_LEN \/ Len(operand.v) < MIN_OPERAND_ARR_LEN
  THEN Error("Operand array has a max length of {} and a minimum length of {} but given operand length was {}",
             <<MAX_OPERAND_ARR_LEN, MAX_OPERAND_ARR_LEN, Len(operand.v)>>)
  ELSE NoError
checkAndErrorIfBadOperand(operand) ==
  IF Len(operand.v) > MAX_OPERAND_ARR_LEN \/ Len(operand.v) < MIN_OPERAND_ARR_LEN
  THEN Error("Operand array has a max length of {} and a minimum length of {} but given operand length was {}",
             <<MAX_OPERAND_ARR_LEN, MAX_OPERAND_ARR_LEN, Len(operand.v)>>)
  ELSE NoError

\* InsightRuleBodyFilterOperationFunctions.validateTextOperation
validateTextOperation(operation, operand) ==
  IF Len(operand.v) > MAX_TEXT_OPERANDS \/ Len(operand.v) < MIN_TEXT_OPERANDS
  THEN Error("The {} filter operation allows {} to {} inputs, but {} was provided",
             <<operation, MIN_TEXT_OPERANDS, MAX_TEXT_OPERANDS, Len(operand.v)>>)
  ELSE NoError

\* The builder after in, notIn or startsWith: the operand is checked, then the
\* operation and the operand are assigned.  The mutant assigns the operation
\* before it checks the operand.
setTextOperation_beforeCheck(this, operation, operand) ==
  IF checkAndErrorIfBadOperand(operand) # NoError
  THEN Set(this, kfilterOperation, operation)
  ELSE Set(Set(this, kfilterOperation, operation), kfilterOperand, operand)
setTextOperation(this, operation, operand) ==
  IF checkAndErrorIfBadOperand(operand) # NoError
  THEN this
  ELSE Set(Set(this, kfilterOperation, operation), kfilterOperand, operand)

\* The builder after greaterThan, lessThan, equalTo, notEqualTo or isPresent.
\* The mutant assigns the operation and leaves the operand.
setOperation_operationOnly(this, operation, operand) ==
  Set(this, kfilterOperation, operation)
setOperation(this, operation, operand) ==
  Set(Set(this, kfilterOperation, operation), kfilterOperand, operand)

\* The builder after ignoreCase(ignoreCase)
setIgnoreCase(this, b) == Set(this, kfilterIgnoreCase, b)

\* The builder after statistic(statistic).  The mutant forgets ignoreCase.
setStatistic_dropsIgnoreCase(this, s) ==
  Delete(Set(this, kfilterStatistic, s), kfilterIgnoreCase)
setStatistic(this, s) == Set(this, kfilterStatistic, s)

\* InsightsRuleBodyFilterBuilder.toFilter: the Error it throws, NoError when
\* it returns.
toFilterError(this) ==
  IF Get(this, kfilterOperation) = InsightsRuleBodyFilterOperations.UNDEFINED
  THEN Error("Operation cannot be undefined but was given an operation of {} and an operand of {}. Must use operation method (.in, .startsWith, etc) before toFilter().",
             <<Get(this, kfilterOperation), Get(this, kfilterOperand)>>)
  ELSE NoError

\* InsightsRuleBodyFilterBuilder.toFilter: the filter it returns
toFilter(this) ==
  dropUndefined(Obj("literal",
    (kfilterMatch :> Get(this, kfilterMatch))
      @@ (kfilterOperation :> Get(this, kfilterOperation))
      @@ (kfilterOperand :> Get(this, kfilterOperand))
      @@ (kfilterIgnoreCase :> Get(this, kfilterIgnoreCase))
      @@ (kfilterStatistic :> Get(this, kfilterStatistic))))

\* The object literal of InsightsRuleBodyFilter.fromFilter; a later property
\* of a literal replaces an earlier one of the same key.
fromFilterLiteral(filter) ==
  Obj("literal",
    (KStatistic :> Get(filter, kfilterStatistic))
      @@ (KIgnoreCase :> Get(filter, kfilterIgnoreCase))
      @@ (PropertyKey(Get(filter, kfilterOperation)) :> Get(filter, kfilterOperand))
      @@ (KMatch :> Get(filter, kfilterMatch)))

\* InsightsRuleBodyFilter.fromFilter.  The mutant returns the literal as it is.
fromFilter_keepUndefined(filter) == fromFilterLiteral(filter)
fromFilter(filter) == dropUndefined(fromFilterLiteral(filter))

\* The operands callers pass
Words == <<Str("PUT"), Str("GET"), Str("POST")>>
TextOperand(n) == Arr([i \in 1..n |-> Words[((i - 1) % Len(Words)) + 1]])
TextOperations ==
  {InsightsRuleBodyFilterOperations.IN, InsightsRuleBodyFilterOperations.NOT_IN,
   InsightsRuleBodyFilterOperations.STARTS_WITH}
NumberOperations ==
  {InsightsRuleBodyFilterOperations.GREATER_THAN, InsightsRuleBodyFilterOperations.LESS_THAN,
   InsightsRuleBodyFilterOperations.EQUAL_TO, InsightsRuleBodyFilterOperations.NOT_EQUAL_TO}
NumberOperands == {Num(0), Num(200)}
MatchChoices == {Str("$.httpMethod"), Str("$.BytesRecieved")}

\* A call of method or function fn of class on with argument arg
Call(on, fn, arg) == [fn |-> fn, on |-> on, arg |-> arg]

InitFilter ==
  /\ \E match \in MatchChoices : builder = InsightsRuleBodyFilterBuilder(match)
  /\ selected = FALSE
  /\ call = NoCall
  /\ returned = Undefined
  /\ thrown = NoError
  /\ ruleBody = Undefined
  /\ supplied = Undefined
  /\ pc = "filter"
  /\ rendered = Undefined
  /\ file = Undefined
  /\ SCHEMA_properties = SCHEMA_literal

\* builder.in(operand), builder.notIn(operand), builder.startsWith(operand)
BuilderTextOperation ==
  \E operation \in TextOperations, n \in 0..MaxOperandLen :
    /\ pc = "filter"
    /\ call' = Call("InsightsRuleBodyFilterBuilder", operation, TextOperand(n))
    /\ thrown' = checkAndErrorIfBadOperand(TextOperand(n))
    /\ builder' = setTextOperation(builder, operation, TextOperand(n))
    /\ returned' = IF thrown' = NoError THEN builder' ELSE Undefined
    /\ selected' = (selected \/ thrown' = NoError)
    /\ UNCHANGED ruleVars

\* builder.greaterThan(operand), lessThan, equalTo, notEqualTo
BuilderNumberOperation ==
  \E operation \in NumberOperations, operand \in NumberOperands :
    /\ pc = "filter"
    /\ call' = Call("InsightsRuleBodyFilterBuilder", operation, operand)
    /\ thrown' = NoError
    /\ builder' = setOperation(builder, operation, operand)
    /\ returned' = builder'
    /\ selected' = TRUE
    /\ UNCHANGED ruleVars

\* builder.isPresent(operand)
isPresent ==
  \E operand \in BOOLEAN :
    /\ pc = "filter"
    /\ call' = Call("InsightsRuleBodyFilterBuilder",
                    InsightsRuleBodyFilterOperations.IS_PRESENT, Bool(operand))
    /\ thrown' = NoError
    /\ builder' = setOperation(builder, InsightsRuleBodyFilterOperations.IS_PRESENT,
                               Bool(operand))
    /\ returned' = builder'
    /\ selected' = TRUE
    /\ UNCHANGED ruleVars

\* builder.ignoreCase(ignoreCase)
ignoreCase ==
  \E b \in BOOLEAN :
    /\ pc = "filter"
    /\ call' = Call("InsightsRuleBodyFilterBuilder", Str("ignoreCase"), Bool(b))
    /\ thrown' = NoError
    /\ builder' = setIgnoreCase(builder, Bool(b))
    /\ returned' = builder'
    /\ UNCHANGED <<selected, ruleVars>>

\* builder.statistic(statistic)
statistic ==
  \E s \in {InsightsRuleBodyFilterStatistics.SUM, InsightsRuleBodyFilterStatistics.AVERAGE} :
    /\ pc = "filter"
    /\ call' = Call("InsightsRuleBodyFilterBuilder", Str("statistic"), s)
    /\ thrown' = NoError
    /\ builder' = setStatistic(builder, s)
    /\ returned' = builder'
    /\ UNCHANGED <<selected, ruleVars>>

\* builder.toFilter()
ToFilter ==
  /\ pc = "filter"
  /\ call' = Call("InsightsRuleBodyFilterBuilder", Str("toFilter"), Undefined)
  /\ thrown' = toFilterError(builder)
  /\ returned' = IF thrown' = NoError THEN toFilter(builder) ELSE Undefined
  /\ UNCHANGED <<builder, selected, ruleVars>>

\* InsightsRuleBodyFilter.fromFilter(filter), on the filter toFilter has just
\* returned or on the builder itself, which has the properties of a filter.
FromFilter ==
  \E filter \in {builder} \cup
                (IF call.fn = Str("toFilter") /\ thrown = NoError THEN {returned} ELSE {}) :
    /\ pc = "filter"
    /\ call' = Call("InsightsRuleBodyFilter", Str("fromFilter"), filter)
    /\ thrown' = NoError
    /\ returned' = fromFilter(filter)
    /\ UNCHANGED <<builder, selected, ruleVars>>

\* CloudWatchLogsV1FilterOperationFunctions.in(...operand), notIn, startsWith
TextOperationFunction ==
  \E operation \in TextOperations, n \in 0..MaxOperandLen :
    /\ pc = "filter"
    /\ call' = Call("CloudWatchLogsV1FilterOperationFunctions", operation, TextOperand(n))
    /\ thrown' = validateTextOperation(operation, TextOperand(n))
    /\ returned' = IF thrown' = NoError
                   THEN Obj("literal", PropertyKey(operation) :> TextOperand(n))
                   ELSE Undefined
    /\ UNCHANGED <<builder, selected, ruleVars>>

NextFilter ==
  \/ BuilderTextOperation
  \/ BuilderNumberOperation
  \/ isPresent
  \/ ignoreCase
  \/ statistic
  \/ ToFilter
  \/ FromFilter
  \/ TextOperationFunction

SpecFilter == InitFilter /\ [][NextFilter]_vars

\* CloudWatchLogsV1FilterOperationFunctions.greaterThan(operand), lessThan,
\* equalTo, notEqualTo and isPresent(operand)
OtherOperationFunction ==
  \E operation \in NumberOperations \cup {InsightsRuleBodyFilterOperations.IS_PRESENT},
     operand \in NumberOperands \cup {Bool(TRUE)} :
    /\ pc = "filter"
    /\ (operation \in NumberOperations) = (operand.t = "number")
    /\ call' = Call("CloudWatchLogsV1FilterOperationFunctions", operation, operand)
    /\ thrown' = NoError
    /\ returned' = Obj("literal", PropertyKey(operation) :> operand)
    /\ UNCHANGED <<builder, selected, ruleVars>>

\* An entry of an object: Object.keys(o)[i] and Object.values(o)[i]
Entry(key, value) == [key |-> key, value |-> value]

\* The entries of an object that has one property or none
ObjectEntries(o) ==
  IF DOMAIN o.v = {}
  THEN <<>>
  ELSE LET key == CHOOSE k \in DOMAIN o.v : TRUE IN <<Entry(key, o.v[key])>>

\* The operationAndInput literals a caller writes, each by its entries in
\* the order written: no entry, an empty list, two entries.
OperationAndInputChoices ==
  {<<>>,
   <<Entry(KIn, Arr(<<>>))>>,
   <<Entry(KIn, Arr(<<Str("PUT")>>)), Entry(KGreaterThan, Num(0))>>}

\* CloudWatchLogsV1Filter.fromFilter on a filter with the given match and the
\* given entries of operationAndInput.  Index 0 of the keys and of the values
\* of an object without properties is undefined, and the computed key
\* [undefined] is the key 'undefined'.
CloudWatchLogsV1Filter_fromFilter(match, operationAndInput) ==
  Obj("literal",
      (IF Len(operationAndInput) = 0
       THEN Key("u", "ndefined") :> Undefined
       ELSE operationAndInput[1].key :> operationAndInput[1].value)
        @@ (KMatch :> match))

\* CloudWatchLogsV1Filter.fromFilter({match, operationAndInput}), with what
\* an operation function has just returned or with a literal
V1FromFilter ==
  \E match \in MatchChoices,
     operationAndInput \in OperationAndInputChoices \cup
       (IF call.on = "CloudWatchLogsV1FilterOperationFunctions" /\ thrown = NoError
        THEN {ObjectEntries(returned)} ELSE {}) :
    /\ pc = "filter"
    /\ call' = Call("CloudWatchLogsV1Filter", Str("fromFilter"), Arr(operationAndInput))
    /\ thrown' = NoError
    /\ returned' = CloudWatchLogsV1Filter_fromFilter(match, operationAndInput)
    /\ UNCHANGED <<builder, selected, ruleVars>>

\* The caller writes a description with the filter fromFilter has just
\* returned; fromRuleBody and renderRuleBody follow.
DescribeWithFilter ==
  /\ pc = "filter"
  /\ call.fn = Str("fromFilter")
  /\ ruleBody' = Description(Absent, Absent, Absent, Absent, Absent,
                             Arr(<<>>), Arr(<<returned>>))
  /\ supplied' = ruleBody'
  /\ pc' = "described"
  /\ UNCHANGED <<thrown, rendered, file, returned, builder, call, selected>>
  /\ UNCHANGED SCHEMA_properties

\* The filters of a rule body: made by the operation functions and
\* CloudWatchLogsV1Filter.fromFilter, or by the builder and
\* InsightsRuleBodyFilter.fromFilter, then given to fromRuleBody.
NextRuleFilters ==
  \/ BuilderTextOperation
  \/ ToFilter
  \/ FromFilter
  \/ TextOperationFunction
  \/ OtherOperationFunction
  \/ V1FromFilter
  \/ DescribeWithFilter
  \/ fromRuleBody
  \/ RenderRuleBody

SpecRuleFilters == InitFilter /\ [][NextRuleFilters]_vars

\* The last call was a text-set operation, of the builder or of the functions
TextOperationCalled == call.fn \in TextOperations

\* C12: in, notIn and startsWith, as functions of
\* CloudWatchLogsV1FilterOperationFunctions and as methods of the builder,
\* return for an operand list of 1 to 10 values and throw for a list of no
\* value or of more than 10.
C12_TextOperandLength ==
  TextOperationCalled =>
    LET n == Len(call.arg.v)
    IN  /\ (1 <= n /\ n <= 10) => (thrown = NoError /\ returned # Undefined)
        /\ (n = 0 \/ n > 10) => (thrown # NoError /\ returned = Undefined)

\* C12 witness: startsWith of the builder returned for a list of 10.
C12_Witness ==
  /\ call = Call("InsightsRuleBodyFilterBuilder",
                 InsightsRuleBodyFilterOperations.STARTS_WITH, Get(builder, kfilterOperand))
  /\ Len(call.arg.v) = 10
  /\ thrown = NoError /\ returned = builder

\* C13: toFilter throws when no operation method has returned on the builder
\* and returns a filter once one has.
C13_ToFilterNeedsOperation ==
  call.fn = Str("toFilter") =>
    /\ ~selected => (thrown # NoError /\ returned = Undefined)
    /\ selected =>
         /\ thrown = NoError
         /\ returned.t = "object"
         /\ Get(returned, kfilterOperation) = Get(builder, kfilterOperation)
         /\ Get(returned, kfilterOperand) = Get(builder, kfilterOperand)
         /\ Get(returned, kfilterMatch) = Get(builder, kfilterMatch)

\* C13 witness: toFilter threw on a builder on which ignoreCase and statistic
\* were called but no operation method has returned.
C13_Witness ==
  /\ call.fn = Str("toFilter") /\ ~selected /\ thrown # NoError
  /\ Has(builder, kfilterIgnoreCase) /\ Has(builder, kfilterStatistic)

\* C14: the filter fromFilter returns has Match, the key named after the
\* operation with the operand, IgnoreCase exactly when ignoreCase was set and
\* Statistic exactly when statistic was set, each with the value set, and
\* nothing else: no other key, no undefined, no null.
C14_ExactlyTheFilterKeys ==
  call.fn = Str("fromFilter") =>
    LET operation == PropertyKey(Get(builder, kfilterOperation))
    IN  /\ DOMAIN returned.v =
             {KMatch, operation}
               \cup (IF Has(builder, kfilterIgnoreCase) THEN {KIgnoreCase} ELSE {})
               \cup (IF Has(builder, kfilterStatistic) THEN {KStatistic} ELSE {})
        /\ Get(returned, KMatch) = Get(builder, kfilterMatch)
        /\ Get(returned, operation) = Get(builder, kfilterOperand)
        /\ Get(returned, KIgnoreCase) = Get(builder, kfilterIgnoreCase)
        /\ Get(returned, KStatistic) = Get(builder, kfilterStatistic)
        /\ \A k \in DOMAIN returned.v : returned.v[k].t \notin {"undefined", "null"}

\* C14 witness: in(["PUT"]) and ignoreCase(true), no statistic, rendered from
\* the filter toFilter returned as Match, In and IgnoreCase only.
C14_Witness ==
  /\ call.fn = Str("fromFilter") /\ call.arg # builder
  /\ returned.v = (KMatch :> Str("$.httpMethod")) @@ (KIn :> Arr(<<Str("PUT")>>))
                    @@ (KIgnoreCase :> Bool(TRUE))

\* ------------------------------------------------------- files, custom body
\* What readFileSync throws when there is no file at filepath, and what
\* JSON.parse throws on a text that is not JSON
readFileSyncError == Error("ENOENT: no such file or directory", <<>>)
JSONparseError == Error("SyntaxError: Unexpected token in JSON", <<>>)

\* readFileSync(filepath).toString(): the Error thrown, NoError when it returns
readFileSync(text) == IF text = Undefined THEN readFileSyncError ELSE NoError

\* The descriptions written to files and given to CustomRuleBody: every
\* choice of fields, schema, valueof, keys and filters.
InitPlainDescription ==
  \E fi \in DOMAIN FieldsChoices, sc \in DOMAIN SchemaChoices,
     vo \in DOMAIN ValueofChoices, ks \in DOMAIN KeysChoices,
     fl \in DOMAIN FiltersChoices :
    ruleBody = Description(Absent, FieldsChoices[fi], SchemaChoices[sc], Absent,
                           ValueofChoices[vo], KeysChoices[ks], FiltersChoices[fl])

\* Other values a caller gives to CustomRuleBody.fromRuleBody: the empty
\* object, a string, a string that is itself a JSON text.
CustomChoices ==
  <<Obj("literal", NoProps), Str("not a rule body"),
    JSONtext([t |-> "object", v |-> (KSchema :> Str("CloudWatchLogRule"))])>>

\* The file at filepath is written: the JSON text of the description the
\* caller holds, or a text that is not JSON.
WriteFile ==
  /\ pc = "described"
  /\ \E text \in {JSONstringify(ruleBody), Str("{")} : file' = text
  /\ pc' = "written"
  /\ UNCHANGED <<ruleBody, supplied, thrown, rendered, returned, builder, call, selected>>
  /\ UNCHANGED SCHEMA_properties

\* CloudWatchLogsV1RuleBody.fromFile(filepath).  returned is the description
\* the IRuleBody it returns keeps.
fromFile ==
  /\ pc \in {"described", "written"}
  /\ call' = Call("CloudWatchLogsV1RuleBody", Str("fromFile"), file)
  /\ IF readFileSync(file) # NoError
     THEN thrown' = readFileSyncError /\ returned' = Undefined
     ELSE IF ~IsJSON(file)
     THEN thrown' = JSONparseError /\ returned' = Undefined
     ELSE /\ thrown' = validateRuleBody(setRuleBodyDefaults(JSONparse(file)))
          /\ returned' = IF thrown' = NoError
                         THEN setRuleBodyDefaults(JSONparse(file))
                         ELSE Undefined
  /\ pc' = IF thrown' = NoError THEN "file built" ELSE "file thrown"
  /\ UNCHANGED <<ruleBody, supplied, rendered, file, builder, selected>>
  /\ UNCHANGED SCHEMA_properties

\* renderRuleBody() of the IRuleBody fromFile returned
RenderRuleBodyOfFile ==
  /\ pc = "file built"
  /\ rendered' = renderRuleBody(returned)
  /\ pc' = "file rendered"
  /\ UNCHANGED <<ruleBody, supplied, thrown, file, returned, builder, call, selected>>
  /\ UNCHANGED SCHEMA_properties

InitFile ==
  /\ InitPlainDescription
  /\ supplied = ruleBody
  /\ pc = "described"
  /\ thrown = NoError
  /\ rendered = Undefined
  /\ InitOthers

NextFile ==
  \/ fromRuleBody
  \/ RenderRuleBody
  \/ PassAgain
  \/ WriteFile
  \/ fromFile
  \/ RenderRuleBodyOfFile

SpecFile == InitFile /\ [][NextFile]_vars

\* renderRuleBody of the class CustomRuleBody.fromRuleBody returns.  The mutant
\* capitalizes the keys of an object as the version 1 rule body does.
CustomRuleBody_render_pascalCase(x) ==
  IF x.t = "object" THEN JSONstringify(keysToPascalCase(x)) ELSE JSONstringify(x)
CustomRuleBody_render(x) == JSONstringify(x)

\* CustomRuleBody.fromRuleBody(ruleBody).  returned is the value the IRuleBody
\* it returns keeps.
CustomRuleBody_fromRuleBody ==
  /\ pc = "described"
  /\ call' = Call("CustomRuleBody", Str("fromRuleBody"), ruleBody)
  /\ thrown' = NoError
  /\ returned' = ruleBody
  /\ pc' = "custom built"
  /\ UNCHANGED <<ruleBody, supplied, rendered, file, builder, selected>>
  /\ UNCHANGED SCHEMA_properties

\* CustomRuleBody.fromFile(filepath): fromRuleBody of the text of the file
CustomRuleBody_fromFile ==
  /\ pc \in {"described", "written"}
  /\ call' = Call("CustomRuleBody", Str("fromFile"), file)
  /\ thrown' = readFileSync(file)
  /\ returned' = file
  /\ pc' = IF thrown' = NoError THEN "custom built" ELSE "custom thrown"
  /\ UNCHANGED <<ruleBody, supplied, rendered, file, builder, selected>>
  /\ UNCHANGED SCHEMA_properties

\* renderRuleBody() of the IRuleBody CustomRuleBody returned
CustomRenderRuleBody ==
  /\ pc = "custom built"
  /\ rendered' = CustomRuleBody_render(returned)
  /\ pc' = "custom rendered"
  /\ UNCHANGED <<ruleBody, supplied, thrown, file, returned, builder, call, selected>>
  /\ UNCHANGED SCHEMA_properties

InitCustom ==
  /\ \/ InitPlainDescription
     \/ \E i \in DOMAIN CustomChoices : ruleBody = CustomChoices[i]
  /\ supplied = ruleBody
  /\ pc = "described"
  /\ thrown = NoError
  /\ rendered = Undefined
  /\ InitOthers

NextCustom ==
  \/ WriteFile
  \/ CustomRuleBody_fromRuleBody
  \/ CustomRuleBody_fromFile
  \/ CustomRenderRuleBody

SpecCustom == InitCustom /\ [][NextCustom]_vars

\* A value JSON can spell: no undefined in it.
RECURSIVE JSONCompatible(_)
JSONCompatible(x) ==
  CASE x.t = "undefined" -> FALSE
    [] x.t = "object" -> \A k \in DOMAIN x.v : JSONCompatible(x.v[k])
    [] x.t = "array" -> \A i \in DOMAIN x.v : JSONCompatible(x.v[i])
    [] OTHER -> TRUE

\* Two values are deep-equal: the same keys and elements with deep-equal
\* values, whichever objects they are.
RECURSIVE DeepEqual(_, _)
DeepEqual(x, y) ==
  /\ x.t = y.t
  /\ CASE x.t = "object" ->
            /\ DOMAIN x.v = DOMAIN y.v
            /\ \A k \in DOMAIN x.v : DeepEqual(x.v[k], y.v[k])
       [] x.t = "array" ->
            /\ Len(x.v) = Len(y.v)
            /\ \A i \in DOMAIN x.v : DeepEqual(x.v[i], y.v[i])
       [] OTHER -> x = y

\* C15: for every JSON-compatible structure x, whatever its schema and its
\* numbers of keys and filters, CustomRuleBody.fromRuleBody(x) and its
\* renderRuleBody throw nothing and the text returned parses to a structure
\* deep-equal to x.
C15_CustomStructureRoundTrip ==
  (call = Call("CustomRuleBody", Str("fromRuleBody"), supplied)
     /\ supplied.t = "object" /\ JSONCompatible(supplied)) =>
    /\ thrown = NoError
    /\ pc \in {"custom built", "custom rendered"}
    /\ pc = "custom rendered" =>
         IsJSON(rendered) /\ DeepEqual(JSONparse(rendered), supplied)

\* C15 witness: a structure with a foreign schema, 5 keys and 5 filters
\* rendered to a text that parses to it.
C15_Witness ==
  /\ pc = "custom rendered" /\ call.fn = Str("fromRuleBody")
  /\ supplied.t = "object" /\ JSONCompatible(supplied)
  /\ Has(supplied, kSchema) /\ Has(supplied, kContribution)
  /\ Get(Get(supplied, kSchema), kName) = Str("A very bad schema")
  /\ Len(Get(Get(supplied, kContribution), kKeys).v) = 5
  /\ Has(Get(supplied, kContribution), kFilters)
  /\ Len(Get(Get(supplied, kContribution), kFilters).v) = 5
  /\ DeepEqual(JSONparse(rendered), supplied)

\* C16: CustomRuleBody.fromRuleBody(s).renderRuleBody() is the string s, and
\* CustomRuleBody.fromFile(path).renderRuleBody() is the text of the file.
C16_RawStringAsIs ==
  pc = "custom rendered" =>
    /\ (call.fn = Str("fromRuleBody") /\ supplied.t = "string") => rendered = supplied
    /\ call.fn = Str("fromFile") => rendered = file

\* C17: fromFile on a file holding the JSON text of the description d the
\* caller holds ends as fromRuleBody(d) does, with the same validation error
\* or a rendered output equal to that of d; the error of a missing file and
\* of a text that is not JSON reaches the caller.
C17_FromFileAsFromRuleBody ==
  call = Call("CloudWatchLogsV1RuleBody", Str("fromFile"), file) =>
    /\ file = Undefined => thrown = readFileSyncError
    /\ (file # Undefined /\ ~IsJSON(file)) => thrown = JSONparseError
    /\ (file # Undefined /\ file = JSONstringify(ruleBody)) =>
         /\ thrown = validateRuleBody(setRuleBodyDefaults(ruleBody))
         /\ pc = "file rendered" =>
              rendered = renderRuleBody(setRuleBodyDefaults(ruleBody))

\* The description supplies all four properties setRuleBodyDefaults assigns.
FullySpecified ==
  /\ Has(supplied, kLogFormat) /\ Has(supplied, kSchema)
  /\ Has(supplied, kAggregateOn) /\ Has(suppliedContribution, kFilters)

\* C18: setRuleBodyDefaults applied to its own result gives an equal
\* description, and applied to a description that specifies logFormat,
\* schema, aggregateOn and contribution.filters it changes no field.
C18_DefaultsIdempotent ==
  called =>
    /\ setRuleBodyDefaults(ruleBody) = ruleBody
    /\ FullySpecified => ruleBody = supplied

\* C18 witness: a fully specified description with fields and valueof, from
\* which the other format and aggregate would be inferred, left as it was.
C18_Witness ==
  /\ called /\ FullySpecified
  /\ Get(supplied, kLogFormat) = Str("JSON") /\ Has(supplied, kFields)
  /\ Get(supplied, kAggregateOn) = Str("Count") /\ Truthy(Get(suppliedContribution, kValueof))
  /\ ruleBody = supplied

C20_ExplicitChoiceKept ==
  pc = "rendered" =>
    /\ Has(supplied, kLogFormat) => Get(parsed, KLogFormat) = Get(supplied, kLogFormat)
    /\ Has(supplied, kAggregateOn) => Get(parsed, KAggregateOn) = Get(supplied, kAggregateOn)

\* C20 witness: Count chosen with a valueof, JSON chosen with fields.
C20_Witness ==
  /\ pc = "rendered"
  /\ Get(supplied, kAggregateOn) = Str("Count")
  /\ Get(suppliedContribution, kValueof) = Str("$.BytesRecieved")
  /\ Get(supplied, kLogFormat) = Str("JSON") /\ Truthy(Get(supplied, kFields))
  /\ Get(parsed, KAggregateOn) = Str("Count") /\ Get(parsed, KLogFormat) = Str("JSON")

\* C21: the Error a text-set operation throws for a list of a length out of
\* range tells, in this order at the end of its message, the minimum 1, the
\* maximum 10 and the length given.
C21_LengthErrorReportsBounds ==
  (TextOperationCalled /\ thrown # NoError) =>
    LET args == thrown.args
        last == Len(args)
    IN  /\ last >= 3
        /\ args[last - 2] = 1
        /\ args[last - 1] = 10
        /\ args[last] = Len(call.arg.v)

\* C22: the keys error of validateRuleBody tells the number of keys given and
\* the range 0 to 4; the filters error tells the number of filters given and
\* the bound 4.
C22_CardinalityErrorReportsCount ==
  (pc = "thrown" /\ SchemaPasses) =>
    /\ ~KeysPass => thrown.args = <<0, 4, Len(suppliedKeys.v)>>
    /\ (KeysPass /\ ~FiltersPass) => thrown.args = <<4, Len(suppliedFilters.v)>>

\* C30: whenever the accepted description has a string contribution.valueof,
\* the output has Contribution.ValueOf equal to it, and no output has the key
\* Valueof in Contribution.
C30_ValueOfAlwaysRenamed ==
  pc = "rendered" =>
    LET Contribution == Get(parsed, KContribution)
    IN  /\ Get(suppliedContribution, kValueof).t = "string" =>
             Get(Contribution, KValueOf) = Get(suppliedContribution, kValueof)
        /\ KValueof \notin DOMAIN Contribution.v

\* C29: the Fields mapping of the output has exactly the keys and values of
\* the supplied fields mapping, and the filters of the output have the
\* supplied match fields and operands.
C29_UserDataUnaltered ==
  pc = "rendered" =>
    /\ Has(supplied, kFields) =>
         DeepEqual(Get(parsed, KFields), Get(supplied, kFields))
    /\ Has(suppliedContribution, kFilters) =>
         DeepEqual(Get(Get(parsed, KContribution), KFilters), suppliedFilters)

\* The operation and the operand of the builder
BuilderPair == <<Get(builder, kfilterOperation), Get(builder, kfilterOperand)>>

\* The operand is of the kind the operation takes, or both are the initial
\* values.
MatchedPair ==
  LET operation == BuilderPair[1]
      operand == BuilderPair[2]
  IN  \/ /\ operation = InsightsRuleBodyFilterOperations.UNDEFINED
         /\ operand = OPERAND_UNDEFINED
      \/ /\ operation \in TextOperations
         /\ operand.t = "array"
         /\ 1 <= Len(operand.v) /\ Len(operand.v) <= 10
         /\ \A i \in DOMAIN operand.v : operand.v[i].t = "string"
      \/ /\ operation \in NumberOperations
         /\ operand.t = "number"
      \/ /\ operation = InsightsRuleBodyFilterOperations.IS_PRESENT
         /\ operand.t = "boolean"

\* The step is a call of an operation method of the builder.
OperationCalled ==
  /\ call'.on = "InsightsRuleBodyFilterBuilder"
  /\ call'.fn \in TextOperations \cup NumberOperations
                    \cup {InsightsRuleBodyFilterOperations.IS_PRESENT}

\* C23: after every sequence of builder calls the operation and the operand
\* are a matched pair; every call of an operation method that returns sets
\* the pair to its own operation and operand, and every other call, a
\* text-set call that throws among them, leaves the pair as it was.
C23_OperationOperandMatched ==
  /\ MatchedPair
  /\ [][/\ MatchedPair'
        /\ IF OperationCalled /\ thrown' = NoError
           THEN BuilderPair' = <<call'.fn, call'.arg>>
           ELSE BuilderPair' = BuilderPair]_vars

\* C23 witness: a text-set call threw on a builder that keeps the pair
\* (GreaterThan, 200) set before.
C23_Witness ==
  /\ call.on = "InsightsRuleBodyFilterBuilder" /\ call.fn \in TextOperations
  /\ thrown # NoError
  /\ BuilderPair = <<InsightsRuleBodyFilterOperations.GREATER_THAN, Num(200)>>

\* The builder after the operation method of the given operation
AfterOperation(this, operation, operand) ==
  IF operation \in TextOperations
  THEN setTextOperation(this, operation, operand)
  ELSE setOperation(this, operation, operand)

\* toFilter of a new builder on which the operation, ignoreCase and statistic
\* of this builder are called, in each of the six orders
FiltersOfAllOrders ==
  LET new == InsightsRuleBodyFilterBuilder(Get(builder, kfilterMatch))
      O(b) == AfterOperation(b, BuilderPair[1], BuilderPair[2])
      I(b) == setIgnoreCase(b, Get(builder, kfilterIgnoreCase))
      S(b) == setStatistic(b, Get(builder, kfilterStatistic))
      Then(bs, F(_)) == {F(b) : b \in bs}
      OIS == Then(Then(Then({new}, O), I), S)
      OSI == Then(Then(Then({new}, O), S), I)
      IOS == Then(Then(Then({new}, I), O), S)
      ISO == Then(Then(Then({new}, I), S), O)
      SOI == Then(Then(Then({new}, S), O), I)
      SIO == Then(Then(Then({new}, S), I), O)
  IN  {toFilter(b) : b \in OIS \cup OSI \cup IOS \cup ISO \cup SOI \cup SIO}

\* C24: a call of ignoreCase or statistic leaves operation and operand as
\* they were, a call of an operation method leaves ignoreCase and statistic
\* as they were, and the filter toFilter returns is the one every order of
\* the operation call, the ignoreCase call and the statistic call gives.
C24_AnnotationsIndependent ==
  [][/\ (call'.on = "InsightsRuleBodyFilterBuilder"
           /\ call'.fn \in {Str("ignoreCase"), Str("statistic")})
          => BuilderPair' = BuilderPair
     /\ OperationCalled =>
          /\ Get(builder', kfilterIgnoreCase) = Get(builder, kfilterIgnoreCase)
          /\ Get(builder', kfilterStatistic) = Get(builder, kfilterStatistic)
     /\ (call'.fn = Str("toFilter") /\ thrown' = NoError
           /\ Has(builder', kfilterIgnoreCase) /\ Has(builder', kfilterStatistic))
          => FiltersOfAllOrders' = {returned'}]_vars

\* C24 witness: toFilter returned a filter with In, IgnoreCase and Statistic.
C24_Witness ==
  /\ call.fn = Str("toFilter") /\ thrown = NoError
  /\ Get(returned, kfilterOperation) = InsightsRuleBodyFilterOperations.IN
  /\ Get(returned, kfilterIgnoreCase) = Bool(TRUE)
  /\ Get(returned, kfilterStatistic) = InsightsRuleBodyFilterStatistics.SUM

\* The keys of the eight operations
OperationKeys ==
  {PropertyKey(operation) :
     operation \in TextOperations \cup NumberOperations
                     \cup {InsightsRuleBodyFilterOperations.IS_PRESENT}}

\* C27: every filter CloudWatchLogsV1Filter.fromFilter or
\* InsightsRuleBodyFilter.fromFilter returns has exactly one key beside Match,
\* IgnoreCase and Statistic, and that key is one of the eight operations.
C27_ExactlyOneOperationKey ==
  call.fn = Str("fromFilter") =>
    LET keys == DOMAIN returned.v \ {KMatch, KIgnoreCase, KStatistic}
    IN  Cardinality(keys) = 1 /\ keys \subseteq OperationKeys

\* C28: every filter of a rendered rule body whose operation is In, NotIn or
\* StartsWith has an operand list of 1 to 10 strings.
C28_RenderedTextOperands ==
  pc = "rendered" =>
    LET Filters == Get(Get(parsed, KContribution), KFilters).v
    IN  \A i \in DOMAIN Filters :
          \A operation \in TextOperations :
            PropertyKey(operation) \in DOMAIN Filters[i].v =>
              LET operand == Filters[i].v[PropertyKey(operation)]
              IN  /\ operand.t = "array"
                  /\ 1 <= Len(operand.v) /\ Len(operand.v) <= 10
                  /\ \A j \in DOMAIN operand.v : operand.v[j].t = "string"

\* --------------------------------------------------------- caller's writes
\* The descriptions of the callers that write to them afterwards: schema left
\* out or written, no key or four, filters left out or four.
WrittenDescriptions ==
  {Description(Absent, Absent, SchemaChoices[sc], Absent, Absent,
               KeysChoices[ks], FiltersChoices[fl]) :
     sc \in {1, 2}, ks \in {1, MAX_CONTRIBUTION_KEYS + 1},
     fl \in {1, MAX_CONTRIBUTION_FILTERS + 2}}

\* ruleBody.contribution.keys = keys, by the caller, on the object the
\* IRuleBody keeps
WriteKeys ==
  \E ks \in DOMAIN KeysChoices :
    /\ pc \in {"built", "rendered"}
    /\ ruleBody' = Set(ruleBody, kContribution,
                       Set(Get(ruleBody, kContribution), kKeys, KeysChoices[ks]))
    /\ UNCHANGED <<supplied, pc, thrown, rendered>>
    /\ UNCHANGED otherVars

\* ruleBody.contribution.filters = filters, by the caller
WriteFilters ==
  \E fl \in DOMAIN FiltersChoices :
    /\ pc \in {"built", "rendered"}
    /\ FiltersChoices[fl] # Absent
    /\ ruleBody' = Set(ruleBody, kContribution,
                       Set(Get(ruleBody, kContribution), kFilters, FiltersChoices[fl]))
    /\ UNCHANGED <<supplied, pc, thrown, rendered>>
    /\ UNCHANGED otherVars

\* ruleBody.schema.name = name, by the caller.  The schema fromRuleBody
\* filled in is the SCHEMA object of the class.
WriteSchemaName ==
  \E name \in {Str("CloudWatchLogRule"), Str("A very bad schema")} :
    /\ pc \in {"thrown", "built", "rendered"}
    /\ Has(ruleBody, kSchema)
    /\ IF NotSameObject(Get(ruleBody, kSchema), SCHEMA)
       THEN /\ ruleBody' = Set(ruleBody, kSchema, Set(Get(ruleBody, kSchema), kName, name))
            /\ UNCHANGED SCHEMA_properties
       ELSE /\ SCHEMA_properties' = [SCHEMA_properties EXCEPT ![kName] = name]
            /\ ruleBody' = Set(ruleBody, kSchema, SCHEMA')
    /\ UNCHANGED <<supplied, pc, thrown, rendered, file, returned, builder, call, selected>>

\* renderRuleBody() called once more on the IRuleBody
RenderAgain ==
  /\ pc = "rendered"
  /\ rendered' = renderRuleBody(ruleBody)
  /\ UNCHANGED <<ruleBody, supplied, pc, thrown>>
  /\ UNCHANGED otherVars

\* The caller writes another description.
NewDescription ==
  /\ pc \in {"thrown", "rendered"}
  /\ ruleBody' \in WrittenDescriptions
  /\ supplied' = ruleBody'
  /\ pc' = "described"
  /\ thrown' = NoError
  /\ rendered' = Undefined
  /\ UNCHANGED otherVars

InitWrites ==
  /\ ruleBody \in WrittenDescriptions
  /\ supplied = ruleBody
  /\ pc = "described"
  /\ thrown = NoError
  /\ rendered = Undefined
  /\ InitOthers

NextWrites ==
  \/ fromRuleBody
  \/ RenderRuleBody
  \/ WriteKeys
  \/ WriteFilters
  \/ WriteSchemaName
  \/ RenderAgain
  \/ NewDescription

SpecWrites == InitWrites /\ [][NextWrites]_vars

\* C25: whatever the caller writes to the description between fromRuleBody
\* and renderRuleBody, every text rendered has at most 4 Contribution.Keys and
\* at most 4 Contribution.Filters, and a second renderRuleBody returns the
\* text the first returned.
C25_RenderedWithinBounds ==
  [][/\ pc' = "rendered" =>
          LET Contribution == Get(JSONparse(rendered'), KContribution)
          IN  /\ Len(Get(Contribution, KKeys).v) <= 4
              /\ Len(Get(Contribution, KFilters).v) <= 4
     /\ (pc = "rendered" /\ pc' = "rendered") => rendered' = rendered]_vars

\* C26: whatever calls and writes came before, the SCHEMA object has the name
\* and version it was created with, and a description that leaves schema out
\* passes the schema rule and is rendered with Schema
\* {Name: 'CloudWatchLogRule', Version: 1}.
C26_SchemaConstant ==
  /\ SCHEMA_properties = SCHEMA_literal
  /\ (called /\ ~Has(supplied, kSchema)) => thrown # SchemaError
  /\ (pc = "rendered" /\ ~Has(supplied, kSchema)) =>
       Get(parsed, KSchema).v = (KName :> Str("CloudWatchLogRule")) @@ (KVersion :> Num(1))

====
